---- MODULE Spec2Model ----
(***************************************************************************)
(* MicroScan: a browser front-end that collects microscope images, sends   *)
(* them with a fixed instruction and response schema to a remote model     *)
(* (analyzeSample) and renders the JSON report the model returns (App).    *)
(***************************************************************************)
EXTENDS Integers, Sequences, FiniteSets, TLC

VARIABLES
    images,        \* App state: the uploaded images (FileReader results)
    isAnalyzing,   \* App state: an analysis is running
    result,        \* App state: the report shown, or null
    error,         \* App state: the message shown, or null
    pendingReads,  \* FileReaders started and not yet ended, per file
    calls,         \* invocations of analyzeSample that have not been consumed
    density,       \* a particles-per-liter value read against the scoring scale
    levels,        \* the bands of the scoring scale that density falls in
    sinceReset     \* history: reset was pressed, and no upload or analysis since

vars ==
    <<images, isAnalyzing, result, error, pendingReads, calls, density, levels,
      sinceReset>>

uiVars == <<images, isAnalyzing, result, error, pendingReads>>
scaleVars == <<density, levels>>

(***************************************************************************)
(* Bounds of the model.                                                    *)
(***************************************************************************)
MaxImages == 3       \* images held or being read, in the UI specifications
MaxSlotImages == 6   \* the same, in the upload/remove/reset specification
MaxSelect == 2       \* files picked in one file-input change event
MaxLen == 2          \* images passed to one direct invocation of analyzeSample
MaxCalls == 2        \* invocations of analyzeSample outstanding at once
MaxDensity == 320    \* largest particles-per-liter value read against the scale

(***************************************************************************)
(* JavaScript values.  Strings whose characters matter (data URLs) are     *)
(* sequences of comma-free chunks and "," separators.                      *)
(***************************************************************************)
Null == [t |-> "null"]
Undefined == [t |-> "undefined"]
Str(s) == [t |-> "string", s |-> s]
Text(chars) == [t |-> "text", chars |-> chars]
Num(n) == [t |-> "number", n |-> n]
Arr(items) == [t |-> "array", items |-> items]
Obj(f) == [t |-> "object", f |-> f]

EmptyObject == Obj(<<>>)

RECURSIVE SeqsUpTo(_, _)
SeqsUpTo(S, n) ==
    IF n = 0 THEN {<<>>}
    ELSE LET shorter == SeqsUpTo(S, n - 1)
         IN  shorter \cup {Append(s, x) : s \in shorter, x \in S}

(***************************************************************************)
(* String.prototype.split(',') and the [1] index of its result.            *)
(***************************************************************************)
RECURSIVE SplitFrom(_, _, _)
SplitFrom(chars, i, segment) ==
    IF i > Len(chars) THEN <<segment>>
    ELSE IF chars[i] = "," THEN <<segment>> \o SplitFrom(chars, i + 1, <<>>)
    ELSE SplitFrom(chars, i + 1, Append(segment, chars[i]))

Split(chars) == SplitFrom(chars, 1, <<>>)

(***************************************************************************)
(* Files the user can pick, and FileReader.readAsDataURL.                  *)
(***************************************************************************)
ScanA == [name |-> "scanA.png", type |-> "image/png", base64 |-> <<"QUJD">>]
ScanB == [name |-> "scanB.jpg", type |-> "image/jpeg", base64 |-> <<"REVG">>]

Files == {ScanA, ScanB}

DataURL(file) == <<"data:", file.type, ";base64", ",">> \o file.base64

\* reader.result when loadend fires: the data URL, or null when the read failed
ReadResults(file) == {Text(DataURL(file)), Null}

ImageValues == UNION {ReadResults(f) : f \in Files}

(***************************************************************************)
(* The request analyzeSample builds.                                       *)
(***************************************************************************)
ScoringScale ==
    << [lo |-> 0,   hi |-> 10,  open |-> FALSE, level |-> "CLEAN",                  score |-> 1],
       [lo |-> 11,  hi |-> 50,  open |-> FALSE, level |-> "LOW CONTAMINATION",      score |-> 3],
       [lo |-> 51,  hi |-> 150, open |-> FALSE, level |-> "MODERATE CONTAMINATION", score |-> 5],
       [lo |-> 151, hi |-> 300, open |-> FALSE, level |-> "HIGH CONTAMINATION",     score |-> 7],
       [lo |-> 300, hi |-> 300, open |-> TRUE,  level |-> "CRITICAL CONTAMINATION", score |-> 10] >>

SYSTEM_INSTRUCTION ==
    [role |-> "You are MicroScan Ocean, an expert AI system specialized in microplastic detection",
     scoringScale |-> ScoringScale]

Prompt == "Please analyze the attached microscope image(s) of a water sample."

TString == [type |-> "STRING"]
TNumber == [type |-> "NUMBER"]
TArray(items) == [type |-> "ARRAY", items |-> items]
TObject(properties, required) ==
    [type |-> "OBJECT", properties |-> properties, required |-> required]

ResponseSchema ==
    TObject(
        [reportId |-> TString,
         analysisDate |-> TString,
         detection |-> TObject([totalCount |-> TNumber, confidence |-> TString,
                                reasoning |-> TString],
                               {"totalCount", "confidence", "reasoning"}),
         classification |-> TArray(TObject([type |-> TString, count |-> TNumber,
                                            colors |-> TArray(TString),
                                            sizeRange |-> TString,
                                            percentage |-> TNumber], {})),
         severity |-> TObject([particlesPerLiter |-> TNumber, score |-> TNumber,
                               level |-> TString, calculation |-> TString], {}),
         sources |-> TArray(TObject([source |-> TString, confidence |-> TNumber,
                                     reasoning |-> TString], {})),
         healthRisk |-> TObject([marineRisk |-> TString, humanRiskLevel |-> TString,
                                 humanRiskSummary |-> TString,
                                 highestRiskTypes |-> TArray(TString),
                                 healthEffects |-> TString,
                                 vulnerablePopulations |-> TString], {}),
         remediation |-> TObject([immediate |-> TArray(TString),
                                  policy |-> TArray(TString),
                                  community |-> TArray(TString)], {}),
         fullReportMarkdown |-> TString],
        {"reportId", "analysisDate", "detection", "classification", "severity",
         "sources", "healthRisk", "remediation", "fullReportMarkdown"})

\* img.split(',')[1]
InlineData(img) ==
    LET segments == Split(img.chars)
    IN  IF Len(segments) >= 2 THEN Text(segments[2]) ELSE Undefined

ImagePart(img) == [inlineData |-> [mimeType |-> "image/jpeg", data |-> InlineData(img)]]

ImageParts(imgs) == [i \in 1..Len(imgs) |-> ImagePart(imgs[i])]

RequestConfig ==
    [systemInstruction |-> SYSTEM_INSTRUCTION,
     responseMimeType |-> "application/json",
     responseSchema |-> ResponseSchema]

\* a request whose prompt names the number of images
GenerateContentRequestCounted(imgs) ==
    [model |-> "gemini-3-flash-preview",
     contents |-> [parts |-> ImageParts(imgs) \o <<[text |-> <<Prompt, Len(imgs)>>]>>],
     config |-> RequestConfig]

GenerateContentRequest(imgs) ==
    [model |-> "gemini-3-flash-preview",
     contents |-> [parts |-> ImageParts(imgs) \o <<[text |-> Prompt]>>],
     config |-> RequestConfig]

(***************************************************************************)
(* JSON text, as a sequence of tokens, and JSON.parse.                     *)
(***************************************************************************)
Punct(k) == [k |-> k]
StringTok(s) == [k |-> "string", s |-> s]
NumberTok(n) == [k |-> "number", n |-> n]

ParseFail == [ok |-> FALSE]
Parsed(value, next) == [ok |-> TRUE, value |-> value, next |-> next]

RECURSIVE ParseValue(_, _), ParseElements(_, _, _), ParseMembers(_, _, _)
ParseValue(toks, i) ==
    IF i > Len(toks) THEN ParseFail
    ELSE LET tk == toks[i]
         IN  CASE tk.k = "null" -> Parsed(Null, i + 1)
               [] tk.k = "number" -> Parsed(Num(tk.n), i + 1)
               [] tk.k = "string" -> Parsed(Str(tk.s), i + 1)
               [] tk.k = "[" ->
                    IF i + 1 <= Len(toks) /\ toks[i + 1].k = "]"
                    THEN Parsed(Arr(<<>>), i + 2)
                    ELSE ParseElements(toks, i + 1, <<>>)
               [] tk.k = "{" ->
                    IF i + 1 <= Len(toks) /\ toks[i + 1].k = "}"
                    THEN Parsed(Obj(<<>>), i + 2)
                    ELSE ParseMembers(toks, i + 1, <<>>)
               [] OTHER -> ParseFail

ParseElements(toks, i, items) ==
    LET r == ParseValue(toks, i)
    IN  IF ~r.ok \/ r.next > Len(toks) THEN ParseFail
        ELSE IF toks[r.next].k = ","
             THEN ParseElements(toks, r.next + 1, Append(items, r.value))
        ELSE IF toks[r.next].k = "]"
             THEN Parsed(Arr(Append(items, r.value)), r.next + 1)
        ELSE ParseFail

ParseMembers(toks, i, fields) ==
    IF i + 1 > Len(toks) \/ toks[i].k # "string" \/ toks[i + 1].k # ":" THEN ParseFail
    ELSE LET r == ParseValue(toks, i + 2)
         IN  IF ~r.ok \/ r.next > Len(toks) THEN ParseFail
             ELSE LET added == (toks[i].s :> r.value) @@ fields
                  IN  IF toks[r.next].k = ","
                      THEN ParseMembers(toks, r.next + 1, added)
                      ELSE IF toks[r.next].k = "}"
                      THEN Parsed(Obj(added), r.next + 1)
                      ELSE ParseFail

\* JSON.parse(text): the value, or a SyntaxError
JSONParse(toks) ==
    LET r == ParseValue(toks, 1)
    IN  IF r.ok /\ r.next = Len(toks) + 1
        THEN [ok |-> TRUE, value |-> r.value]
        ELSE [ok |-> FALSE, message |-> "Unexpected token in JSON"]

(***************************************************************************)
(* The remote model: it writes JSON that follows the response schema, or   *)
(* text cut short, or no text at all, or the call fails.                   *)
(***************************************************************************)
RECURSIVE Serialize(_), SerializeItems(_, _), SerializeMembers(_, _)
Serialize(v) ==
    CASE v.t = "null" -> <<Punct("null")>>
      [] v.t = "number" -> <<NumberTok(v.n)>>
      [] v.t = "string" -> <<StringTok(v.s)>>
      [] v.t = "array" -> <<Punct("[")>> \o SerializeItems(v.items, 1) \o <<Punct("]")>>
      [] v.t = "object" ->
            <<Punct("{")>> \o SerializeMembers(v.f, DOMAIN v.f) \o <<Punct("}")>>

SerializeItems(items, i) ==
    IF i > Len(items) THEN <<>>
    ELSE Serialize(items[i])
         \o (IF i < Len(items) THEN <<Punct(",")>> ELSE <<>>)
         \o SerializeItems(items, i + 1)

SerializeMembers(f, keys) ==
    IF keys = {} THEN <<>>
    ELSE LET k == CHOOSE x \in keys : TRUE
         IN  <<StringTok(k), Punct(":")>> \o Serialize(f[k])
             \o (IF keys = {k} THEN <<>> ELSE <<Punct(",")>>)
             \o SerializeMembers(f, keys \ {k})

RECURSIVE Validates(_, _)
Validates(v, schema) ==
    CASE schema.type = "STRING" -> v.t = "string"
      [] schema.type = "NUMBER" -> v.t = "number"
      [] schema.type = "ARRAY" ->
            /\ v.t = "array"
            /\ \A i \in 1..Len(v.items) : Validates(v.items[i], schema.items)
      [] schema.type = "OBJECT" ->
            /\ v.t = "object"
            /\ schema.required \subseteq DOMAIN v.f
            /\ \A k \in DOMAIN v.f :
                    /\ k \in DOMAIN schema.properties
                    /\ Validates(v.f[k], schema.properties[k])

Detection ==
    Obj([totalCount |-> Num(12), confidence |-> Str("High"),
         reasoning |-> Str("fibers counted at 40x")])

FullReport(score) ==
    Obj([reportId |-> Str("MS-0001"),
         analysisDate |-> Str("2025-01-01"),
         detection |-> Detection,
         classification |->
            Arr(<<Obj([type |-> Str("fiber"), count |-> Num(12),
                       colors |-> Arr(<<Str("blue")>>), sizeRange |-> Str("1-5mm"),
                       percentage |-> Num(100)])>>),
         severity |-> Obj([particlesPerLiter |-> Num(12), score |-> Num(score),
                           level |-> Str("LOW CONTAMINATION"),
                           calculation |-> Str("12 particles in 1L")]),
         sources |-> Arr(<<Obj([source |-> Str("textiles"), confidence |-> Num(80),
                                reasoning |-> Str("fiber morphology")])>>),
         healthRisk |-> Obj([marineRisk |-> Str("ingestion"),
                             humanRiskLevel |-> Str("LOW"),
                             humanRiskSummary |-> Str("limited exposure"),
                             highestRiskTypes |-> Arr(<<Str("fiber")>>),
                             healthEffects |-> Str("none established"),
                             vulnerablePopulations |-> Str("infants")]),
         remediation |-> Obj([immediate |-> Arr(<<Str("filter intake")>>),
                              policy |-> Arr(<<>>),
                              community |-> Arr(<<>>)]),
         fullReportMarkdown |-> Str("# MicroScan report")])

\* the nested properties of the schema are not required: a reply may omit them
SparseReport ==
    Obj([reportId |-> Str("MS-0002"),
         analysisDate |-> Str("2025-01-02"),
         detection |-> Detection,
         classification |-> Arr(<<Obj([type |-> Str("fragment")])>>),
         severity |-> Obj(<<>>),
         sources |-> Arr(<<>>),
         healthRisk |-> Obj(<<>>),
         remediation |-> Obj(<<>>),
         fullReportMarkdown |-> Str("# MicroScan report")])

ReplyScores == {0, 5, 11}

ModelReplies ==
    {v \in {FullReport(s) : s \in ReplyScores} \cup {SparseReport, EmptyObject} :
        Validates(v, ResponseSchema)}

CutShort(toks) == SubSeq(toks, 1, Len(toks) - 1)

ResponseTexts ==
    {Undefined, Text(<<>>)}
    \cup {Text(Serialize(v)) : v \in ModelReplies}
    \cup {Text(CutShort(Serialize(FullReport(5))))}

Resolved(text) == [kind |-> "resolve", text |-> text]
Rejected(message) == [kind |-> "reject", message |-> message]

Responses ==
    {Resolved(text) : text \in ResponseTexts}
    \cup {Rejected(m) : m \in {"", "API key not valid"}}

(***************************************************************************)
(* analyzeSample.  A call is a record: the images it was given, the        *)
(* requests it issued, and, once its promise has settled, the response it  *)
(* got and its outcome.                                                    *)
(***************************************************************************)
NoResponse == [kind |-> "none"]
NoOutcome == [kind |-> "pending"]
Return(value) == [kind |-> "return", value |-> value]
Throw(message) == [kind |-> "throw", message |-> message]

SplitOfNull == "Cannot read properties of null (reading 'split')"

\* lines 31-55: up to the await of generateContent
AnalyzeSampleStart(imgs) ==
    IF \E i \in 1..Len(imgs) : imgs[i] = Null
    THEN [images |-> imgs, requests |-> <<>>, status |-> "settled",
          response |-> NoResponse, outcome |-> Throw(SplitOfNull)]
    ELSE [images |-> imgs, requests |-> <<GenerateContentRequest(imgs)>>,
          status |-> "awaiting", response |-> NoResponse, outcome |-> NoOutcome]

\* JSON.parse(response.text), without the "{}" fallback
TextAsIs(text) == IF text = Undefined THEN <<>> ELSE text.chars

\* response.text || "{}"
TextOrEmptyObject(text) ==
    IF text = Undefined \/ text = Text(<<>>)
    THEN <<Punct("{"), Punct("}")>>
    ELSE text.chars

\* lines 48, 132: the await ends, JSON.parse
AnalyzeSampleResume(call, response) ==
    LET parsed == JSONParse(TextOrEmptyObject(response.text))
    IN  [call EXCEPT
            !.status = "settled",
            !.response = response,
            !.outcome = IF response.kind = "reject" THEN Throw(response.message)
                        ELSE IF parsed.ok THEN Return(parsed.value)
                        ELSE Throw(parsed.message)]

RemoveAt(s, i) == [j \in 1..(Len(s) - 1) |-> IF j < i THEN s[j] ELSE s[j + 1]]

\* a settled promise's continuation runs before any other task
NoMicrotask == \A i \in 1..Len(calls) : calls[i].status # "settled"

\* the remote call returns or fails, and analyzeSample runs to its end
RemoteResponds(i, response) ==
    /\ NoMicrotask
    /\ calls[i].status = "awaiting"
    /\ calls' = [calls EXCEPT ![i] = AnalyzeSampleResume(calls[i], response)]
    /\ UNCHANGED <<uiVars, scaleVars, sinceReset>>

(***************************************************************************)
(* App: the handlers.                                                      *)
(***************************************************************************)
UploadFirst == "Please upload at least one microscope image."
AnalysisFailed == "An error occurred during analysis."

RECURSIVE Count(_, _)
Count(s, x) ==
    IF s = <<>> THEN 0 ELSE (IF Head(s) = x THEN 1 ELSE 0) + Count(Tail(s), x)

RECURSIVE Total(_, _)
Total(f, S) ==
    IF S = {} THEN 0 ELSE LET x == CHOOSE y \in S : TRUE IN f[x] + Total(f, S \ {x})

Reading == Total(pendingReads, Files)

\* lines 198-207: one FileReader per selected file
HandleImageUpload(files) ==
    /\ pendingReads' = [f \in Files |-> pendingReads[f] + Count(files, f)]
    /\ sinceReset' = FALSE
    /\ UNCHANGED <<images, isAnalyzing, result, error, calls, scaleVars>>

\* lines 202-204: reader.onloadend
ReaderLoadEnd(file, value) ==
    /\ NoMicrotask
    /\ pendingReads[file] > 0
    /\ images' = Append(images, value)
    /\ pendingReads' = [pendingReads EXCEPT ![file] = @ - 1]
    /\ UNCHANGED <<isAnalyzing, result, error, calls, scaleVars, sinceReset>>

RECURSIVE FilterOutIndex(_, _, _)
FilterOutIndex(s, i, index) ==
    IF i > Len(s) THEN <<>>
    ELSE (IF i - 1 # index THEN <<s[i]>> ELSE <<>>) \o FilterOutIndex(s, i + 1, index)

\* removeImage comparing the index with positions counted from 1
RemoveImageFromOne(index) ==
    /\ images' = FilterOutIndex(images, 1, index - 1)
    /\ UNCHANGED <<isAnalyzing, result, error, pendingReads, calls, scaleVars, sinceReset>>

\* lines 209-211; index counts from 0
RemoveImage(index) ==
    /\ images' = FilterOutIndex(images, 1, index)
    /\ UNCHANGED <<isAnalyzing, result, error, pendingReads, calls, scaleVars, sinceReset>>

\* handleAnalyze without its check of images.length
HandleAnalyzeUnchecked ==
    /\ isAnalyzing' = TRUE
    /\ error' = Null
    /\ calls' = Append(calls, AnalyzeSampleStart(images))
    /\ sinceReset' = FALSE
    /\ UNCHANGED <<images, result, pendingReads, scaleVars>>

\* lines 213-222: up to the await of analyzeSample
HandleAnalyze ==
    IF Len(images) = 0
    THEN /\ error' = Str(UploadFirst)
         /\ sinceReset' = FALSE
         /\ UNCHANGED <<images, isAnalyzing, result, pendingReads, calls, scaleVars>>
    ELSE /\ isAnalyzing' = TRUE
         /\ error' = Null
         /\ calls' = Append(calls, AnalyzeSampleStart(images))
         /\ sinceReset' = FALSE
         /\ UNCHANGED <<images, result, pendingReads, scaleVars>>

\* err.message, without the fallback for an empty message
ErrorMessageAsIs(message) == message

\* err.message || "An error occurred during analysis."
ErrorMessage(message) == IF message = "" THEN AnalysisFailed ELSE message

\* the continuation with setIsAnalyzing(false) at the end of the try block
\* instead of in finally
HandleAnalyzeSettledNoFinally(i) ==
    /\ calls[i].status = "settled"
    /\ IF calls[i].outcome.kind = "return"
       THEN result' = calls[i].outcome.value /\ isAnalyzing' = FALSE /\ UNCHANGED error
       ELSE error' = Str(ErrorMessage(calls[i].outcome.message))
            /\ UNCHANGED <<result, isAnalyzing>>
    /\ calls' = RemoveAt(calls, i)
    /\ UNCHANGED <<images, pendingReads, scaleVars, sinceReset>>

\* lines 222-228: after the await
HandleAnalyzeSettled(i) ==
    /\ calls[i].status = "settled"
    /\ IF calls[i].outcome.kind = "return"
       THEN result' = calls[i].outcome.value /\ UNCHANGED error
       ELSE error' = Str(ErrorMessage(calls[i].outcome.message)) /\ UNCHANGED result
    /\ isAnalyzing' = FALSE
    /\ calls' = RemoveAt(calls, i)
    /\ UNCHANGED <<images, pendingReads, scaleVars, sinceReset>>

\* a reset that also ends the analysis in progress
ResetAndStop ==
    /\ images' = <<>>
    /\ result' = Null
    /\ error' = Null
    /\ isAnalyzing' = FALSE
    /\ sinceReset' = TRUE
    /\ UNCHANGED <<pendingReads, calls, scaleVars>>

\* lines 231-235
Reset ==
    /\ images' = <<>>
    /\ result' = Null
    /\ error' = Null
    /\ sinceReset' = TRUE
    /\ UNCHANGED <<isAnalyzing, pendingReads, calls, scaleVars>>

(***************************************************************************)
(* App: what the rendered page lets the user do.                           *)
(***************************************************************************)
FileSelections == SeqsUpTo(Files, MaxSelect) \ {<<>>}

\* lines 323-330: the file input
SelectFiles(files, cap) ==
    /\ NoMicrotask
    /\ Len(images) + Reading + Len(files) <= cap
    /\ HandleImageUpload(files)

\* lines 335-347: one remove button per thumbnail
ClickRemove(index) ==
    /\ NoMicrotask
    /\ index \in 0..(Len(images) - 1)
    /\ RemoveImage(index)

\* the button disabled on an empty image list only
RunDisabledWhenEmpty == Len(images) = 0

\* line 365: disabled={isAnalyzing || images.length === 0}
RunDisabled == isAnalyzing \/ Len(images) = 0

\* lines 363-366: the Run Analysis button
ClickRunAnalysis ==
    /\ NoMicrotask
    /\ ~RunDisabled
    /\ Len(calls) < MaxCalls
    /\ HandleAnalyze

\* lines 282-287: the Reset button
ClickReset == NoMicrotask /\ Reset

(***************************************************************************)
(* The scoring scale of the system instruction.                            *)
(***************************************************************************)
InBand(band, d) == d >= band.lo /\ (band.open \/ d <= band.hi)

BandsOf(d) == {i \in 1..Len(ScoringScale) : InBand(ScoringScale[i], d)}

ReadScale(d) ==
    /\ density' = d
    /\ levels' = BandsOf(d)
    /\ UNCHANGED <<uiVars, calls, sinceReset>>

(***************************************************************************)
(* Specifications.                                                         *)
(***************************************************************************)
Init ==
    /\ images = <<>>
    /\ isAnalyzing = FALSE
    /\ result = Null
    /\ error = Null
    /\ pendingReads = [f \in Files |-> 0]
    /\ calls = <<>>
    /\ density = 0
    /\ levels = BandsOf(0)
    /\ sinceReset = FALSE

\* the page: user actions and asynchronous completions
Next ==
    \/ \E files \in FileSelections : SelectFiles(files, MaxImages)
    \/ \E f \in Files : \E v \in ReadResults(f) : ReaderLoadEnd(f, v)
    \/ \E index \in 0..(MaxImages - 1) : ClickRemove(index)
    \/ ClickRunAnalysis
    \/ \E i \in 1..Len(calls) : \E r \in Responses : RemoteResponds(i, r)
    \/ \E i \in 1..Len(calls) : HandleAnalyzeSettled(i)
    \/ ClickReset

Spec == Init /\ [][Next]_vars

\* one file, picked any number of times, is enough to tell the images apart
\* here: its data URL and the null of a failed read
OneFileSelections == SeqsUpTo({ScanA}, MaxSelect) \ {<<>>}

\* the page, with the remote call sure to return or fail
NextLive ==
    \/ \E files \in OneFileSelections : SelectFiles(files, MaxLen)
    \/ \E f \in Files : \E v \in ReadResults(f) : ReaderLoadEnd(f, v)
    \/ \E index \in 0..(MaxLen - 1) : ClickRemove(index)
    \/ ClickRunAnalysis
    \/ \E i \in 1..Len(calls) : \E r \in Responses : RemoteResponds(i, r)
    \/ \E i \in 1..Len(calls) : HandleAnalyzeSettled(i)
    \/ ClickReset

LiveSpec ==
    /\ Init /\ [][NextLive]_vars
    /\ WF_vars(\E i \in 1..Len(calls) : \E r \in Responses : RemoteResponds(i, r))
    /\ WF_vars(\E i \in 1..Len(calls) : HandleAnalyzeSettled(i))

\* the page's upload, remove and reset alone
NextSlots ==
    \/ \E files \in FileSelections : SelectFiles(files, MaxSlotImages)
    \/ \E f \in Files : \E v \in ReadResults(f) : ReaderLoadEnd(f, v)
    \/ \E index \in 0..(MaxSlotImages - 1) : ClickRemove(index)
    \/ ClickReset

SpecSlots == Init /\ [][NextSlots]_vars

\* the handlers called as functions, whatever the page shows
CallRemoveImage(index) == NoMicrotask /\ RemoveImage(index)

CallHandleAnalyze ==
    /\ NoMicrotask
    /\ Len(images) = 0 \/ Len(calls) < MaxCalls
    /\ HandleAnalyze

NextHandlers ==
    \/ \E files \in OneFileSelections : SelectFiles(files, MaxLen)
    \/ \E f \in Files : \E v \in ReadResults(f) : ReaderLoadEnd(f, v)
    \/ \E index \in -1..MaxLen : CallRemoveImage(index)
    \/ CallHandleAnalyze
    \/ \E i \in 1..Len(calls) : \E r \in Responses : RemoteResponds(i, r)
    \/ \E i \in 1..Len(calls) : HandleAnalyzeSettled(i)
    \/ ClickReset

SpecHandlers == Init /\ [][NextHandlers]_vars

\* analyzeSample called directly
Invoke(imgs) ==
    /\ NoMicrotask
    /\ Len(calls) < MaxCalls
    /\ calls' = Append(calls, AnalyzeSampleStart(imgs))
    /\ UNCHANGED <<uiVars, scaleVars, sinceReset>>

\* the caller's await takes the outcome
Await(i) ==
    /\ calls[i].status = "settled"
    /\ calls' = RemoveAt(calls, i)
    /\ UNCHANGED <<uiVars, scaleVars, sinceReset>>

NextClient ==
    \/ \E imgs \in SeqsUpTo(ImageValues, MaxLen) : Invoke(imgs)
    \/ \E i \in 1..Len(calls) : \E r \in Responses : RemoteResponds(i, r)
    \/ \E i \in 1..Len(calls) : Await(i)

SpecClient == Init /\ [][NextClient]_vars

\* densities read against the scoring scale
NextScale == \E d \in 0..MaxDensity : ReadScale(d)

SpecScale == Init /\ [][NextScale]_vars

(***************************************************************************)
(* The report view.                                                        *)
(***************************************************************************)
\* line 467: {result && (...)}
ReportDisplayed == result # Null

\* lines 484-492: the bars i of 0..9 with i < result.severity.score
BarsLit(score) == Cardinality({i \in 0..9 : i < score})

Has(v, key) == v.t = "object" /\ key \in DOMAIN v.f

TopLevelFields ==
    {"reportId", "analysisDate", "detection", "classification", "severity",
     "sources", "healthRisk", "remediation", "fullReportMarkdown"}

ConformsToAnalysisResult(r) ==
    /\ \A key \in TopLevelFields : Has(r, key)
    /\ \A key \in {"level", "particlesPerLiter", "score"} : Has(r.f.severity, key)
    /\ \A key \in {"immediate", "policy", "community"} :
            Has(r.f.remediation, key) /\ r.f.remediation.f[key].t = "array"
    /\ r.f.classification.t = "array"
    /\ \A i \in 1..Len(r.f.classification.items) :
            /\ Has(r.f.classification.items[i], "colors")
            /\ r.f.classification.items[i].f.colors.t = "array"

(***************************************************************************)
(* Claims.                                                                 *)
(***************************************************************************)
RECURSIVE FirstComma(_, _)
FirstComma(chars, i) ==
    IF i > Len(chars) THEN 0
    ELSE IF chars[i] = "," THEN i
    ELSE FirstComma(chars, i + 1)

AfterFirstComma(chars) ==
    IF FirstComma(chars, 1) = 0 THEN Undefined
    ELSE Text(SubSeq(chars, FirstComma(chars, 1) + 1, Len(chars)))

PartsAsClaimed(call) ==
    LET parts == call.requests[1].contents.parts
        n == Len(call.images)
    IN  /\ Len(parts) = n + 1
        /\ \A j \in 1..n :
              /\ DOMAIN parts[j] = {"inlineData"}
              /\ parts[j].inlineData.data = AfterFirstComma(call.images[j].chars)
        /\ parts[n + 1] = [text |-> Prompt]

\* C1: every invocation of analyzeSample issues exactly one generateContent
\* request, whose parts are one inline image part per image, in the order of
\* the images, then one text prompt part; the data of the i-th image part is
\* the part of the i-th data URL after its first comma.
C1_OneRequestPerInvocation ==
    \A i \in 1..Len(calls) :
        /\ Len(calls[i].requests) = 1
        /\ PartsAsClaimed(calls[i])

\* C2: analyzeSample returns the JSON-parsed value of the response text; an
\* absent or empty text gives an empty object; a text that is not valid JSON,
\* or a failed remote call, makes analyzeSample fail with no value.
C2_ReturnsParsedText ==
    \A i \in 1..Len(calls) :
        LET c == calls[i]
        IN  (c.status = "settled" /\ c.response # NoResponse) =>
              /\ c.response.kind = "reject" => c.outcome.kind = "throw"
              /\ (c.response.kind = "resolve" /\ c.response.text \in {Undefined, Text(<<>>)})
                    => c.outcome = Return(EmptyObject)
              /\ \A v \in ModelReplies :
                    (c.response.kind = "resolve" /\ c.response.text = Text(Serialize(v)))
                        => c.outcome = Return(v)
              /\ (c.response.kind = "resolve"
                    /\ c.response.text = Text(CutShort(Serialize(FullReport(5)))))
                    => c.outcome.kind = "throw"

C2_Witness ==
    \E i \in 1..Len(calls) :
        /\ calls[i].status = "settled"
        /\ calls[i].response = Resolved(Undefined)
        /\ calls[i].outcome = Return(EmptyObject)

\* C3: at most one call of analyzeSample is outstanding at any time.
C3_OneOutstandingCall == Len(calls) <= 1

C3_Witness ==
    /\ Len(calls) = 1
    /\ calls[1].status = "awaiting"
    /\ isAnalyzing
    /\ Len(images) > 0
    /\ images # calls[1].images

\* C4: handleAnalyze with no images does not call the remote model, sets
\* error to "Please upload at least one microscope image." and leaves
\* isAnalyzing, result and images as they were.
C4_NoImagesNoCall ==
    [][(Len(images) = 0 /\ CallHandleAnalyze) =>
            /\ calls' = calls
            /\ error' = Str("Please upload at least one microscope image.")
            /\ UNCHANGED <<isAnalyzing, result, images>>]_vars

C4_Witness ==
    /\ error = Str("Please upload at least one microscope image.")
    /\ Len(images) = 0
    /\ result # Null
    /\ isAnalyzing
    /\ Len(calls) = 1

\* C5: a non-null result conforms to AnalysisResult: the nine top-level
\* fields and every nested field the report view reads.
C5_ResultConforms == result # Null => ConformsToAnalysisResult(result)

\* C6: when a report is displayed its severity score is between 1 and 10, so
\* the indicator lights at least 1 and at most 10 bars.
C6_ScoreInRange ==
    ReportDisplayed =>
        /\ Has(result, "severity")
        /\ Has(result.f.severity, "score")
        /\ result.f.severity.f.score.n \in 1..10
        /\ BarsLit(result.f.severity.f.score.n) \in 1..10

\* C7: every density falls in exactly one band of the scoring scale, and the
\* scores of the scale lie in 1..10 and do not decrease with density.
C7_ScaleIsFunction ==
    /\ Cardinality(levels) = 1
    /\ \A i \in 1..Len(ScoringScale) : ScoringScale[i].score \in 1..10
    /\ \A i, j \in 1..Len(ScoringScale) :
            ScoringScale[i].lo <= ScoringScale[j].lo
                => ScoringScale[i].score <= ScoringScale[j].score

\* C8: the UI never holds more than 5 images.
C8_AtMostFiveImages == Len(images) <= 5

\* C9: an analysis that starts ends, given that the remote call returns or
\* fails: isAnalyzing becomes false again, and then either result is the
\* value analyzeSample returned and error is null, or error is a non-empty
\* message.
C9_AnalysisEnds ==
    /\ isAnalyzing ~> ~isAnalyzing
    /\ [][(isAnalyzing /\ ~isAnalyzing') =>
            \E i \in 1..Len(calls) :
                /\ calls[i].status = "settled"
                /\ \/ /\ calls[i].outcome.kind = "return"
                      /\ result' = calls[i].outcome.value
                      /\ error' = Null
                   \/ /\ calls[i].outcome.kind = "throw"
                      /\ error' # Null
                      /\ error'.s # ""]_vars

C9_Witness == ~isAnalyzing /\ result # Null /\ error = Null /\ calls = <<>>

FixedPart(request) ==
    [model |-> request.model,
     systemInstruction |-> request.config.systemInstruction,
     responseMimeType |-> request.config.responseMimeType,
     responseSchema |-> request.config.responseSchema,
     prompt |-> SelectSeq(request.contents.parts, LAMBDA part : "text" \in DOMAIN part)]

\* C10: two requests for different image lists have the same model name,
\* system instruction, prompt text, response MIME type and response schema.
C10_FixedInstruction ==
    \A i, j \in 1..Len(calls) :
        (calls[i].requests # <<>> /\ calls[j].requests # <<>>)
            => FixedPart(calls[i].requests[1]) = FixedPart(calls[j].requests[1])

C10_Witness ==
    \E i, j \in 1..Len(calls) :
        /\ calls[i].requests # <<>>
        /\ calls[j].requests # <<>>
        /\ Len(calls[i].images) # Len(calls[j].images)
        /\ calls[i].requests[1] # calls[j].requests[1]

\* the step in which handleAnalyze handles a failed call
FailureHandled ==
    /\ calls' # calls
    /\ \E i \in 1..Len(calls) :
            calls[i].status = "settled" /\ calls[i].outcome.kind = "throw"

ClaimedErrorText(message) ==
    IF message = "" THEN "An error occurred during analysis." ELSE message

\* C11 as stated: when an analysis fails, error is the failure's message, or
\* "An error occurred during analysis." for an empty one, result is left
\* alone and images is what it was when the analysis was triggered.
C11_AsBeforeTrigger ==
    [][FailureHandled =>
            \E i \in 1..Len(calls) :
                /\ calls[i].status = "settled"
                /\ error' = Str(ClaimedErrorText(calls[i].outcome.message))
                /\ result' = result
                /\ images' = calls[i].images]_vars

\* C11, amended: when an analysis fails, error is the failure's message, or
\* "An error occurred during analysis." for an empty one, and handling the
\* failure changes neither result nor images: they keep the values they had
\* just before it, uploads, removals and resets made meanwhile included.
C11_FailureSetsErrorOnly ==
    [][FailureHandled =>
            \E i \in 1..Len(calls) :
                /\ calls[i].status = "settled"
                /\ error' = Str(ClaimedErrorText(calls[i].outcome.message))
                /\ result' = result
                /\ images' = images]_vars

C11_Witness ==
    /\ error = Str("An error occurred during analysis.")
    /\ ~isAnalyzing
    /\ calls = <<>>
    /\ result # Null
    /\ images # <<>>

\* the step in which a FileReader ends
ReadEnds == \E f \in Files : pendingReads'[f] < pendingReads[f]

\* the step in which files are selected
FilesSelected == \E f \in Files : pendingReads'[f] > pendingReads[f]

\* C12: the upload of k files appends k entries to images, one data URL per
\* selected file and each once, after the images already present, which it
\* neither removes, replaces nor reorders; it leaves result, error and
\* isAnalyzing unchanged.
C12_OneDataURLPerFile ==
    [][/\ FilesSelected => UNCHANGED <<images, result, error, isAnalyzing>>
       /\ ReadEnds =>
            /\ \E f \in Files :
                  /\ pendingReads' = [pendingReads EXCEPT ![f] = @ - 1]
                  /\ images' = Append(images, Text(DataURL(f)))
            /\ UNCHANGED <<result, error, isAnalyzing>>]_vars

WithoutIndex(s, index) ==
    IF index \in 0..(Len(s) - 1)
    THEN SubSeq(s, 1, index) \o SubSeq(s, index + 2, Len(s))
    ELSE s

C14_ResetClearsThreeFields ==
    [][ClickReset =>
            /\ images' = <<>>
            /\ result' = Null
            /\ error' = Null
            /\ UNCHANGED <<isAnalyzing, calls, pendingReads>>]_vars

\* after a reset with a request outstanding and a file still being read
C14_Witness ==
    /\ images = <<>>
    /\ result = Null
    /\ error = Null
    /\ isAnalyzing
    /\ Len(calls) >= 1
    /\ \A i \in 1..Len(calls) : calls[i].status = "awaiting"
    /\ Reading > 0

\* C15: after a reset, images stays empty and result and error stay null
\* until the user's next upload or run-analysis action, even when file reads
\* or a request started before the reset end after it.
C15_ResetIsStable ==
    sinceReset => (images = <<>> /\ result = Null /\ error = Null)

====
